---- MODULE Spec2Model ----
(***************************************************************************)
(* ChunkedVec<T, N>: a growable sequence stored in independently           *)
(* allocated chunks of N MaybeUninit<T> slots (src/src/chunked_vec.rs).    *)
(*                                                                         *)
(* Memory is modelled at the level of slot contents: a slot holds the bits *)
(* of an element (a record with the element's identity and its value) or   *)
(* Uninit.  ptr::read / ptr::copy copy bits and leave the source bits in   *)
(* place, as the code does; destructor runs and by-value hand-overs to the *)
(* caller are counted per element identity in the history variables drops  *)
(* and given.                                                              *)
(***************************************************************************)
EXTENDS Integers, Sequences, FiniteSets, TLC

\* Bounds of the model.
MaxElems == 4          \* elements ever constructed in one run
MaxN == 2              \* chunk sizes explored: 1..MaxN

Vals == {7, 9}         \* element values
ElemIds == 1..MaxElems

VARIABLES
    N,          \* const generic N: the chunk size, fixed for the container
    data,       \* ChunkedVec.data: Vec<Chunk<T, N>>
    len,        \* ChunkedVec.len
    mode,       \* "vec" | "into_iter" | "iter_dropped" | "dropped" | "panicked"
                \* | "unwinding" (a panic inside resize is unwinding the stack)
                \* | "iter" | "iter_mut" (borrowed by an Iter / IterMut)
    it,         \* cursor of the live iterator: chunk_idx, offset, remaining
    ret,        \* value returned by the last call
    panic_msg,  \* message of the panic that ended the run, <<>> when none
    ub,         \* TRUE once a typed read or drop touched an uninitialized slot
    next_id,    \* number of elements constructed so far
    drops,      \* element id -> number of destructor runs
    given,      \* element id -> number of times handed to the caller by value
    last,       \* the last call: its name, its index / length / value arguments
                \* and the len and chunk count before it
    pushed,     \* elements pushed so far, while push is the only mutation done
    push_only,  \* TRUE while push is the only mutation done
    yielded,    \* elements yielded by the owning iterator, in order
    snap,       \* logical contents when the owning iterator was created
    refs        \* slots <<chunk_idx, offset>> a live borrowing iterator has yielded
                \* references to, in order

vars == <<N, data, len, mode, it, ret, panic_msg, ub, next_id, drops, given,
          last, pushed, push_only, yielded, snap, refs>>

----------------------------------------------------------------------------
\* Slots, chunks and return values

Uninit == [id |-> 0, val |-> 0]

Elem(i, v) == [id |-> i, val |-> v]

RetUnit == [tag |-> "unit", v |-> Uninit]

RetNone == [tag |-> "none", v |-> Uninit]

RetSome(e) == [tag |-> "some", v |-> e]

NoIter == [chunk_idx |-> 0, offset |-> 0, remaining |-> 0]

NoPanic == <<>>

\* from_fn(|_| MaybeUninit::uninit()) boxed: a chunk of N uninitialized slots
uninit_chunk == [o \in 0..(N - 1) |-> Uninit]

\* Self::create_new_chunk(value): a fresh chunk whose first slot holds value
create_new_chunk(value) == [o \in 0..(N - 1) |-> IF o = 0 THEN value ELSE Uninit]

\* (index / N, index % N)
chunk_and_offset(index) == <<index \div N, index % N>>

\* the slot self.data[chunk_idx][offset]
slot_at(d, chunk_idx, offset) == d[chunk_idx + 1][offset]

\* self.data[chunk_idx][offset].write(value) / ptr::write
slot_write(d, chunk_idx, offset, value) == [d EXCEPT ![chunk_idx + 1][offset] = value]

\* ptr::copy that moves one slot less than asked
ptr_copy_short(chunk, src, dst, count) ==
    [o \in 0..(N - 1) |->
        IF o >= dst /\ o < dst + count - 1 THEN chunk[o - dst + src] ELSE chunk[o]]

\* ptr::copy(base.add(src), base.add(dst), count) inside one chunk (memmove)
ptr_copy(chunk, src, dst, count) ==
    [o \in 0..(N - 1) |->
        IF o >= dst /\ o < dst + count THEN chunk[o - dst + src] ELSE chunk[o]]

\* Vec::truncate(n) on the chunk list
truncate(d, n) == IF n < Len(d) THEN SubSeq(d, 1, n) ELSE d

\* ptr::drop_in_place / assume_init_drop on a slot: one destructor run
drop_in_place(dr, s) == IF s.id = 0 THEN dr ELSE [dr EXCEPT ![s.id] = @ + 1]

\* a by-value move of an element to the caller
give(gv, s) == IF s.id = 0 THEN gv ELSE [gv EXCEPT ![s.id] = @ + 1]

----------------------------------------------------------------------------
\* index.rs

get_unchecked(d, index) == d[(index \div N) + 1][index % N]

\* get whose bound is one short: the last element is out of reach
get_one_short(d, l, index) ==
    IF index >= l - 1 THEN RetNone ELSE RetSome(get_unchecked(d, index))

get(d, l, index) == IF index >= l THEN RetNone ELSE RetSome(get_unchecked(d, index))

\* the reference returned is modelled by the element it refers to
get_mut(d, l, index) == IF index >= l THEN RetNone ELSE RetSome(get_unchecked(d, index))

\* the message with its two arguments exchanged
index_panic_msg_swapped(index, l) == <<"Index out of bounds: index ", l, " >= length ", index>>

index_panic_msg(index, l) == <<"Index out of bounds: index ", index, " >= length ", l>>

----------------------------------------------------------------------------
\* operations.rs

\* push with the chunk of the slot after the one written (off by one)
push_data_next_chunk(d, l, value) ==
    LET chunk_idx == (l + 1) \div N
        offset == l % N
    IN  IF chunk_idx >= Len(d)
        THEN Append(d, create_new_chunk(value))
        ELSE slot_write(d, chunk_idx, offset, value)

\* push that compares the chunk index with the index of the last chunk
push_data_early_alloc(d, l, value) ==
    LET chunk_idx == l \div N
        offset == l % N
    IN  IF chunk_idx >= Len(d) - 1
        THEN Append(d, create_new_chunk(value))
        ELSE slot_write(d, chunk_idx, offset, value)

\* push that allocates whenever the slot is the first of its chunk
push_data_alloc_at_chunk_start(d, l, value) ==
    LET chunk_idx == l \div N
        offset == l % N
    IN  IF offset = 0
        THEN Append(d, create_new_chunk(value))
        ELSE slot_write(d, chunk_idx, offset, value)

push_data(d, l, value) ==
    LET chunk_idx == l \div N
        offset == l % N
    IN  IF chunk_idx >= Len(d)
        THEN Append(d, create_new_chunk(value))
        ELSE slot_write(d, chunk_idx, offset, value)

RECURSIVE resize_fill(_, _, _, _, _)
\* for i in old_len..new_len { self.data[i / N][i % N].write(value.clone()) }
resize_fill(d, i, new_len, v, id) ==
    IF i >= new_len THEN d
    ELSE resize_fill(slot_write(d, i \div N, i % N, Elem(id, v)), i + 1, new_len, v, id + 1)

\* grow whose fill loop starts one slot late
resize_grow_late(d, old_len, new_len, v, first_id) ==
    LET required_chunks == (new_len + N - 1) \div N
        d1 == IF required_chunks > Len(d)
              THEN d \o [k \in 1..(required_chunks - Len(d)) |-> uninit_chunk]
              ELSE d
    IN  resize_fill(d1, old_len + 1, new_len, v, first_id)

\* grow that also truncates the chunk list to the chunks required
resize_grow_truncating(d, old_len, new_len, v, first_id) ==
    LET required_chunks == (new_len + N - 1) \div N
        d1 == IF required_chunks > Len(d)
              THEN d \o [k \in 1..(required_chunks - Len(d)) |-> uninit_chunk]
              ELSE truncate(d, required_chunks)
    IN  resize_fill(d1, old_len, new_len, v, first_id)

resize_grow(d, old_len, new_len, v, first_id) ==
    LET required_chunks == (new_len + N - 1) \div N
        d1 == IF required_chunks > Len(d)
              THEN d \o [k \in 1..(required_chunks - Len(d)) |-> uninit_chunk]
              ELSE d
    IN  resize_fill(d1, old_len, new_len, v, first_id)

RECURSIVE resize_drop_from(_, _, _, _)
resize_drop_from(d, dr, i, old_len) ==
    IF i >= old_len THEN dr
    ELSE resize_drop_from(d, drop_in_place(dr, slot_at(d, i \div N, i % N)), i + 1, old_len)

\* drop loop that starts one slot late
resize_drop_late(d, dr, i, old_len) == resize_drop_from(d, dr, i + 1, old_len)

RECURSIVE resize_drop(_, _, _, _)
\* for i in new_len..old_len { ptr::drop_in_place(slot i) }
resize_drop(d, dr, i, old_len) ==
    IF i >= old_len THEN dr
    ELSE resize_drop(d, drop_in_place(dr, slot_at(d, i \div N, i % N)), i + 1, old_len)

\* truncation to the chunks that new_len fills completely
resize_truncate_floor(d, new_len) == truncate(d, new_len \div N)

\* a shrink that releases every chunk
resize_truncate_all(d, new_len) == truncate(d, 0)

resize_truncate(d, new_len) ==
    LET required_chunks == IF new_len = 0 THEN 0 ELSE (new_len + N - 1) \div N
    IN  truncate(d, required_chunks)

\* resize whose second branch is taken for new_len <= old_len
resize_data_shrink_or_equal(d, old_len, new_len, v, first_id) ==
    IF new_len > old_len
    THEN resize_grow(d, old_len, new_len, v, first_id)
    ELSE resize_truncate(d, new_len)

\* if new_len > old_len { grow } else if new_len < old_len { shrink }
resize_data(d, old_len, new_len, v, first_id) ==
    IF new_len > old_len
    THEN resize_grow(d, old_len, new_len, v, first_id)
    ELSE IF new_len < old_len
    THEN resize_truncate(d, new_len)
    ELSE d

remove_panic_msg(index, l) == <<"removal index (is ", index, ") should be < len (is ", l, ")">>

RECURSIVE remove_shift_chunks_no_slide(_, _, _)
\* the cross-chunk loop without the slide of the next chunk
remove_shift_chunks_no_slide(d, i, until_chunk_idx) ==
    IF i >= until_chunk_idx THEN d
    ELSE remove_shift_chunks_no_slide(slot_write(d, i, N - 1, slot_at(d, i + 1, 0)),
                                      i + 1, until_chunk_idx)

RECURSIVE remove_shift_chunks(_, _, _)
\* for i in current_chunk_idx..until_chunk_idx: move the next chunk's first
\* element into this chunk's last slot, then slide the next chunk down by one
remove_shift_chunks(d, i, until_chunk_idx) ==
    IF i >= until_chunk_idx THEN d
    ELSE LET val_from_next == slot_at(d, i + 1, 0)
             d1 == slot_write(d, i, N - 1, val_from_next)
             d2 == [d1 EXCEPT ![i + 2] = ptr_copy(@, 1, 0, N - 1)]
         IN  remove_shift_chunks(d2, i + 1, until_chunk_idx)

\* the shift without the slide inside the chunk of the removed element
remove_shift_no_inner_copy(d, l, index) ==
    LET current_chunk_idx == chunk_and_offset(index)[1]
        until_chunk_idx == (l - 1) \div N
    IN  remove_shift_chunks(d, current_chunk_idx, until_chunk_idx)

\* the data of remove(index) before truncation
remove_shift(d, l, index) ==
    LET current_chunk_idx == chunk_and_offset(index)[1]
        offset == chunk_and_offset(index)[2]
        count == N - 1 - offset
        d1 == IF count > 0
              THEN [d EXCEPT ![current_chunk_idx + 1] = ptr_copy(@, offset + 1, offset, count)]
              ELSE d
        until_chunk_idx == (l - 1) \div N
    IN  remove_shift_chunks(d1, current_chunk_idx, until_chunk_idx)

\* remove without the truncation of the chunk list
remove_truncate_none(d, new_len) == d

\* truncation to the chunks that are completely full
remove_truncate_floor(d, new_len) == truncate(d, new_len \div N)

\* truncation that keeps one chunk more than the last occupied one
remove_truncate_one_more(d, new_len) == truncate(d, (new_len \div N) + 1)

remove_truncate(d, new_len) ==
    LET required_chunks == IF new_len = 0 THEN 0 ELSE (new_len + N - 1) \div N
    IN  truncate(d, required_chunks)

swap_remove_panic_msg(index, l) ==
    <<"swap_remove index (is ", index, ") should be < len (is ", l, ")">>

\* swap_remove without the move of the last element
swap_remove_data_no_copy(d, l, index) == d

\* swap_remove with source and destination of the copy exchanged
swap_remove_data_reversed(d, l, index) ==
    LET current_pos == chunk_and_offset(index)
        last_pos == chunk_and_offset(l - 1)
    IN  slot_write(d, last_pos[1], last_pos[2], slot_at(d, current_pos[1], current_pos[2]))

\* swap_remove that truncates the chunk list as remove does
swap_remove_data_truncating(d, l, index) ==
    LET current_pos == chunk_and_offset(index)
        last_pos == chunk_and_offset(l - 1)
        d1 == slot_write(d, current_pos[1], current_pos[2], slot_at(d, last_pos[1], last_pos[2]))
    IN  truncate(d1, (l - 1 + N - 1) \div N)

\* ptr::copy(last, current, 1)
swap_remove_data(d, l, index) ==
    LET current_pos == chunk_and_offset(index)
        last_pos == chunk_and_offset(l - 1)
    IN  slot_write(d, current_pos[1], current_pos[2], slot_at(d, last_pos[1], last_pos[2]))

allocated_capacity == Len(data) * N

----------------------------------------------------------------------------
Init ==
    /\ N \in 1..MaxN
    /\ data = <<>>
    /\ len = 0
    /\ mode = "vec"
    /\ it = NoIter
    /\ ret = RetUnit
    /\ panic_msg = NoPanic
    /\ ub = FALSE
    /\ next_id = 0
    /\ drops = [i \in ElemIds |-> 0]
    /\ given = [i \in ElemIds |-> 0]
    /\ last = [op |-> "new", arg |-> 0, val |-> 0, old_len |-> 0, old_chunks |-> 0]
    /\ pushed = <<>>
    /\ push_only = TRUE
    /\ yielded = <<>>
    /\ snap = <<>>
    /\ refs = <<>>

Called(op, arg, v) ==
    [op |-> op, arg |-> arg, val |-> v, old_len |-> len, old_chunks |-> Len(data)]

Running == mode = "vec" /\ ~ub

\* a fatal error: the run ends with message msg, nothing else changes
Panic(op, arg, msg) ==
    /\ mode' = "panicked"
    /\ panic_msg' = msg
    /\ last' = Called(op, arg, 0)
    /\ UNCHANGED <<N, data, len, it, ret, ub, next_id, drops, given,
                   pushed, push_only, yielded, snap, refs>>

\* ChunkedVec::push
Push(v) ==
    /\ Running
    /\ next_id < MaxElems
    /\ LET value == Elem(next_id + 1, v)
           chunk_idx == len \div N
           offset == len % N
       IN  IF chunk_idx >= Len(data) /\ offset # 0
           THEN Panic("push", 0, <<"assertion failed, left: ", offset, " right: ", 0>>)
           ELSE /\ data' = push_data(data, len, value)
                /\ len' = len + 1
                /\ next_id' = next_id + 1
                /\ ret' = RetUnit
                /\ last' = Called("push", 0, v)
                /\ pushed' = IF push_only THEN Append(pushed, value) ELSE pushed
                /\ UNCHANGED <<N, mode, it, panic_msg, ub, drops, given,
                               push_only, yielded, snap, refs>>

\* ChunkedVec::resize.  The argument value belongs to the caller's side of the
\* call (it is dropped when resize returns); only its duplicates enter the container.
Resize(new_len, v) ==
    /\ Running
    /\ new_len > len => next_id + (new_len - len) <= MaxElems
    /\ LET old_len == len
       IN  /\ data' = resize_data(data, old_len, new_len, v, next_id + 1)
           /\ drops' = IF new_len < old_len
                       THEN resize_drop(data, drops, new_len, old_len)
                       ELSE drops
           /\ ub' = (new_len < old_len /\
                     \E i \in new_len..(old_len - 1) : slot_at(data, i \div N, i % N) = Uninit)
           /\ next_id' = IF new_len > old_len THEN next_id + (new_len - old_len) ELSE next_id
           /\ len' = new_len
    /\ ret' = RetUnit
    /\ last' = Called("resize", new_len, v)
    /\ pushed' = <<>>
    /\ push_only' = FALSE
    /\ UNCHANGED <<N, mode, it, panic_msg, given, yielded, snap, refs>>

\* ChunkedVec::resize left by a panic: value.clone() (growing) or an element's
\* destructor (shrinking) panics in the loop's iteration number done + 1, after
\* done iterations completed.  A destructor that panics has run: its element is
\* destroyed.  The unwinding skips the truncation and self.len = new_len.
ResizeAbort(new_len, v, done) ==
    /\ Running
    /\ new_len # len
    /\ done >= 0
    /\ IF new_len > len
       THEN /\ done < new_len - len
            /\ next_id + done <= MaxElems
            /\ LET required_chunks == (new_len + N - 1) \div N
                   d1 == IF required_chunks > Len(data)
                         THEN data \o [k \in 1..(required_chunks - Len(data)) |-> uninit_chunk]
                         ELSE data
               IN  data' = resize_fill(d1, len, len + done, v, next_id + 1)
            /\ next_id' = next_id + done
            /\ panic_msg' = <<"panic in T::clone">>
            /\ UNCHANGED <<drops, ub>>
       ELSE /\ done < len - new_len
            /\ drops' = resize_drop(data, drops, new_len, new_len + done + 1)
            /\ ub' = (\E i \in new_len..(new_len + done) : slot_at(data, i \div N, i % N) = Uninit)
            /\ panic_msg' = <<"panic in T::drop">>
            /\ UNCHANGED <<data, next_id>>
    /\ mode' = "unwinding"
    /\ ret' = RetUnit
    /\ last' = Called("resize_abort", new_len, v)
    /\ pushed' = <<>>
    /\ push_only' = FALSE
    /\ UNCHANGED <<N, len, it, given, yielded, snap, refs>>

\* ChunkedVec::remove
Remove(index) ==
    /\ Running
    /\ IF index >= len
       THEN Panic("remove", index, remove_panic_msg(index, len))
       ELSE LET pos == chunk_and_offset(index)
                r == slot_at(data, pos[1], pos[2])
                until_chunk_idx == (len - 1) \div N
            IN  /\ ret' = RetSome(r)
                /\ given' = give(given, r)
                /\ ub' = (r = Uninit \/
                          \E c \in (pos[1] + 1)..until_chunk_idx : slot_at(data, c, 0) = Uninit)
                /\ len' = len - 1
                /\ data' = remove_truncate(remove_shift(data, len, index), len - 1)
                /\ last' = Called("remove", index, 0)
                /\ pushed' = <<>>
                /\ push_only' = FALSE
                /\ UNCHANGED <<N, mode, it, panic_msg, next_id, drops, yielded, snap, refs>>

\* ChunkedVec::swap_remove
SwapRemove(index) ==
    /\ Running
    /\ IF index >= len
       THEN Panic("swap_remove", index, swap_remove_panic_msg(index, len))
       ELSE LET pos == chunk_and_offset(index)
                r == slot_at(data, pos[1], pos[2])
            IN  /\ ret' = RetSome(r)
                /\ given' = give(given, r)
                /\ ub' = (r = Uninit)
                /\ data' = swap_remove_data(data, len, index)
                /\ len' = len - 1
                /\ last' = Called("swap_remove", index, 0)
                /\ pushed' = <<>>
                /\ push_only' = FALSE
                /\ UNCHANGED <<N, mode, it, panic_msg, next_id, drops, yielded, snap, refs>>

\* ChunkedVec::get
Get(index) ==
    /\ Running
    /\ ret' = get(data, len, index)
    /\ ub' = (index < len /\ get_unchecked(data, index) = Uninit)
    /\ last' = Called("get", index, 0)
    /\ UNCHANGED <<N, data, len, mode, it, panic_msg, next_id, drops, given,
                   pushed, push_only, yielded, snap, refs>>

\* ChunkedVec::get_mut
GetMut(index) ==
    /\ Running
    /\ ret' = get_mut(data, len, index)
    /\ ub' = (index < len /\ get_unchecked(data, index) = Uninit)
    /\ last' = Called("get_mut", index, 0)
    /\ UNCHANGED <<N, data, len, mode, it, panic_msg, next_id, drops, given,
                   pushed, push_only, yielded, snap, refs>>

\* Index::index
IndexRead(index) ==
    /\ Running
    /\ IF index >= len
       THEN Panic("index", index, index_panic_msg(index, len))
       ELSE /\ ret' = RetSome(get_unchecked(data, index))
            /\ ub' = (get_unchecked(data, index) = Uninit)
            /\ last' = Called("index", index, 0)
            /\ UNCHANGED <<N, data, len, mode, it, panic_msg, next_id, drops, given,
                           pushed, push_only, yielded, snap, refs>>

\* IndexMut::index_mut, and the caller's store of v through the returned reference
IndexWrite(index, v) ==
    /\ Running
    /\ IF index >= len
       THEN Panic("index_mut", index, index_panic_msg(index, len))
       ELSE /\ data' = [data EXCEPT ![(index \div N) + 1][index % N].val = v]
            /\ ret' = RetSome([get_unchecked(data, index) EXCEPT !.val = v])
            /\ ub' = (get_unchecked(data, index) = Uninit)
            /\ last' = Called("index_mut", index, v)
            /\ pushed' = <<>>
            /\ push_only' = FALSE
            /\ UNCHANGED <<N, len, mode, it, panic_msg, next_id, drops, given,
                           yielded, snap, refs>>

----------------------------------------------------------------------------
\* iterators/into_iter.rs

\* advance_position without the roll-over to the next chunk
advance_position_no_rollover(i) ==
    [chunk_idx |-> i.chunk_idx, offset |-> i.offset + 1, remaining |-> i.remaining - 1]

\* advance_position that leaves remaining as it was
advance_position_no_count(i) ==
    LET offset == i.offset + 1
    IN  IF offset = N
        THEN [chunk_idx |-> i.chunk_idx + 1, offset |-> 0, remaining |-> i.remaining]
        ELSE [chunk_idx |-> i.chunk_idx, offset |-> offset, remaining |-> i.remaining]

\* IntoIter::advance_position
advance_position(i) ==
    LET offset == i.offset + 1
    IN  IF offset = N
        THEN [chunk_idx |-> i.chunk_idx + 1, offset |-> 0, remaining |-> i.remaining - 1]
        ELSE [chunk_idx |-> i.chunk_idx, offset |-> offset, remaining |-> i.remaining - 1]

\* IntoIter::current_ptr: &mut self.vec.data[self.chunk_idx][self.offset]
current_ptr(d, i) == slot_at(d, i.chunk_idx, i.offset)

\* the bounds checks of the two [] in current_ptr
cursor_in_bounds(d, i) == i.chunk_idx < Len(d) /\ i.offset < N

\* the panic of a failed [] bounds check
bounds_panic_msg(d, i) ==
    IF i.chunk_idx >= Len(d)
    THEN <<"index out of bounds: the len is ", Len(d), " but the index is ", i.chunk_idx>>
    ELSE <<"index out of bounds: the len is ", N, " but the index is ", i.offset>>

\* IntoIter's drop leaving the container's len as it was
iter_drop_len_kept(l) == l

\* self.vec.len = 0 at the end of IntoIter's drop
iter_drop_len(l) == 0

\* a drop of the iterator that forgets the elements not yet yielded
drop_remaining_none(s) == s

RECURSIVE drop_remaining(_)
\* while self.remaining > 0 { assume_init_drop; slot = uninit; advance_position }
\* on s = [data, drops, it, ub, panic]; stops at a failed bounds check
drop_remaining(s) ==
    IF s.it.remaining > 0
    THEN IF cursor_in_bounds(s.data, s.it)
         THEN drop_remaining(
                [data |-> slot_write(s.data, s.it.chunk_idx, s.it.offset, Uninit),
                 drops |-> drop_in_place(s.drops, current_ptr(s.data, s.it)),
                 it |-> advance_position(s.it),
                 ub |-> s.ub \/ current_ptr(s.data, s.it) = Uninit,
                 panic |-> s.panic])
         ELSE [s EXCEPT !.panic = bounds_panic_msg(s.data, s.it)]
    ELSE s

\* the elements at logical indices 0..l-1, in order
Contents(d, l) == [k \in 1..l |-> get_unchecked(d, k - 1)]

\* IntoIterator::into_iter
IntoIter ==
    /\ Running
    /\ mode' = "into_iter"
    /\ it' = [chunk_idx |-> 0, offset |-> 0, remaining |-> len]
    /\ snap' = Contents(data, len)
    /\ yielded' = <<>>
    /\ ret' = RetUnit
    /\ last' = Called("into_iter", 0, 0)
    /\ UNCHANGED <<N, data, len, panic_msg, ub, next_id, drops, given, pushed, push_only,
                   refs>>

\* Iterator::next for IntoIter
IntoIterNext ==
    /\ mode = "into_iter" /\ ~ub
    /\ IF it.remaining = 0
       THEN /\ ret' = RetNone
            /\ last' = Called("next", it.remaining, 0)
            /\ UNCHANGED <<N, data, len, mode, it, panic_msg, ub, next_id, drops, given,
                           pushed, push_only, yielded, snap, refs>>
       ELSE IF ~cursor_in_bounds(data, it)
       THEN Panic("next", it.remaining, bounds_panic_msg(data, it))
       ELSE LET value == current_ptr(data, it)
            IN  /\ data' = slot_write(data, it.chunk_idx, it.offset, Uninit)
                /\ it' = advance_position(it)
                /\ ret' = RetSome(value)
                /\ given' = give(given, value)
                /\ yielded' = Append(yielded, value)
                /\ ub' = (value = Uninit)
                /\ last' = Called("next", it.remaining, 0)
                /\ UNCHANGED <<N, len, mode, panic_msg, next_id, drops,
                               pushed, push_only, snap, refs>>

\* Drop::drop for IntoIter: drop_remaining, then self.vec.len = 0
IntoIterDrop ==
    /\ mode = "into_iter" /\ ~ub
    /\ LET s == drop_remaining([data |-> data, drops |-> drops, it |-> it,
                                ub |-> FALSE, panic |-> NoPanic])
       IN  /\ data' = s.data
           /\ drops' = s.drops
           /\ it' = s.it
           /\ ub' = s.ub
           /\ panic_msg' = s.panic
           /\ len' = IF s.panic = NoPanic THEN iter_drop_len(len) ELSE len
           /\ mode' = IF s.panic = NoPanic THEN "iter_dropped" ELSE "panicked"
    /\ ret' = RetUnit
    /\ last' = Called("drop_iter", it.remaining, 0)
    /\ UNCHANGED <<N, next_id, given, pushed, push_only, yielded, snap, refs>>

RECURSIVE vec_drop(_, _, _, _)
\* the container's destructor: destroy the elements at indices i..l-1 in place
vec_drop(d, dr, i, l) ==
    IF i >= l THEN dr
    ELSE vec_drop(d, drop_in_place(dr, get_unchecked(d, i)), i + 1, l)

\* Drop for ChunkedVec (run on the container, on IntoIter's vec field after
\* IntoIter's own drop, or by the unwinding of a panic in resize): destroy the
\* first len elements, release every chunk.  Destroying an uninitialized slot
\* or an element a second time is undefined behaviour.
VecDrop ==
    /\ mode \in {"vec", "iter_dropped", "unwinding"} /\ ~ub
    /\ drops' = vec_drop(data, drops, 0, len)
    /\ ub' = (\E i \in 0..(len - 1) :
                \/ get_unchecked(data, i) = Uninit
                \/ drops[get_unchecked(data, i).id] > 0)
    /\ data' = <<>>
    /\ mode' = "dropped"
    /\ ret' = RetUnit
    /\ last' = Called("drop_vec", 0, 0)
    /\ UNCHANGED <<N, len, it, panic_msg, next_id, given, pushed, push_only, yielded, snap, refs>>

----------------------------------------------------------------------------
\* iterators/iter.rs

\* advance_position that leaves remaining as it was
Iter_advance_position_no_count(i) ==
    LET offset == i.offset + 1
    IN  IF offset = N
        THEN [chunk_idx |-> i.chunk_idx + 1, offset |-> 0, remaining |-> i.remaining]
        ELSE [chunk_idx |-> i.chunk_idx, offset |-> offset, remaining |-> i.remaining]

\* Iter::advance_position
Iter_advance_position(i) ==
    LET offset == i.offset + 1
    IN  IF offset = N
        THEN [chunk_idx |-> i.chunk_idx + 1, offset |-> 0, remaining |-> i.remaining - 1]
        ELSE [chunk_idx |-> i.chunk_idx, offset |-> offset, remaining |-> i.remaining - 1]

\* Iter::current_ptr: the address of self.vec.data[self.chunk_idx][self.offset]
Iter_current_ptr(i) == <<i.chunk_idx, i.offset>>

\* Iter::size_hint
Iter_size_hint(i) == <<i.remaining, RetSome(i.remaining)>>

\* ChunkedVec::iter: the container is borrowed until the iterator is gone
IterNew ==
    /\ Running
    /\ mode' = "iter"
    /\ it' = [chunk_idx |-> 0, offset |-> 0, remaining |-> len]
    /\ refs' = <<>>
    /\ ret' = RetUnit
    /\ last' = Called("iter", 0, 0)
    /\ UNCHANGED <<N, data, len, panic_msg, ub, next_id, drops, given, pushed, push_only,
                   yielded, snap>>

\* Iterator::next for Iter
IterNext ==
    /\ mode = "iter" /\ ~ub
    /\ IF it.remaining = 0
       THEN /\ ret' = RetNone
            /\ last' = Called("iter_next", it.remaining, 0)
            /\ UNCHANGED <<N, data, len, mode, it, panic_msg, ub, next_id, drops, given,
                           pushed, push_only, yielded, snap, refs>>
       ELSE IF ~cursor_in_bounds(data, it)
       THEN Panic("iter_next", it.remaining, bounds_panic_msg(data, it))
       ELSE LET ptr == Iter_current_ptr(it)
                value == slot_at(data, ptr[1], ptr[2])
            IN  /\ ret' = RetSome(value)
                /\ ub' = (value = Uninit)
                /\ it' = Iter_advance_position(it)
                /\ refs' = Append(refs, ptr)
                /\ last' = Called("iter_next", it.remaining, 0)
                /\ UNCHANGED <<N, data, len, mode, panic_msg, next_id, drops, given,
                               pushed, push_only, yielded, snap>>

----------------------------------------------------------------------------
\* iterators/iter_mut.rs

\* current_ptr that points at the first slot of the cursor's chunk
IterMut_current_ptr_chunk_start(i) == <<i.chunk_idx, 0>>

\* advance_position without the roll-over to the next chunk
IterMut_advance_position_no_rollover(i) ==
    [chunk_idx |-> i.chunk_idx, offset |-> i.offset + 1, remaining |-> i.remaining - 1]

\* IterMut::advance_position
IterMut_advance_position(i) ==
    LET offset == i.offset + 1
    IN  IF offset = N
        THEN [chunk_idx |-> i.chunk_idx + 1, offset |-> 0, remaining |-> i.remaining - 1]
        ELSE [chunk_idx |-> i.chunk_idx, offset |-> offset, remaining |-> i.remaining - 1]

\* IterMut::current_ptr: self.vec.data[self.chunk_idx][self.offset].as_mut_ptr()
IterMut_current_ptr(i) == <<i.chunk_idx, i.offset>>

\* ChunkedVec::iter_mut: the container is mutably borrowed until the iterator
\* and the references it yielded are gone
IterMutNew ==
    /\ Running
    /\ mode' = "iter_mut"
    /\ it' = [chunk_idx |-> 0, offset |-> 0, remaining |-> len]
    /\ refs' = <<>>
    /\ ret' = RetUnit
    /\ last' = Called("iter_mut", 0, 0)
    /\ UNCHANGED <<N, data, len, panic_msg, ub, next_id, drops, given, pushed, push_only,
                   yielded, snap>>

\* Iterator::next for IterMut
IterMutNext ==
    /\ mode = "iter_mut" /\ ~ub
    /\ IF it.remaining = 0
       THEN /\ ret' = RetNone
            /\ last' = Called("iter_mut_next", it.remaining, 0)
            /\ UNCHANGED <<N, data, len, mode, it, panic_msg, ub, next_id, drops, given,
                           pushed, push_only, yielded, snap, refs>>
       ELSE IF ~cursor_in_bounds(data, it)
       THEN Panic("iter_mut_next", it.remaining, bounds_panic_msg(data, it))
       ELSE LET ptr == IterMut_current_ptr(it)
                value == slot_at(data, ptr[1], ptr[2])
            IN  /\ ret' = RetSome(value)
                /\ ub' = (value = Uninit)
                /\ it' = IterMut_advance_position(it)
                /\ refs' = Append(refs, ptr)
                /\ last' = Called("iter_mut_next", it.remaining, 0)
                /\ UNCHANGED <<N, data, len, mode, panic_msg, next_id, drops, given,
                               pushed, push_only, yielded, snap>>

\* the caller's store of v through the k-th reference that IterMut yielded
\* (the references live as long as the borrow, so any of them may be used)
IterMutWrite(k, v) ==
    /\ mode = "iter_mut" /\ ~ub
    /\ k \in 1..Len(refs)
    /\ LET ptr == refs[k]
       IN  /\ data' = [data EXCEPT ![ptr[1] + 1][ptr[2]].val = v]
           /\ ret' = RetUnit
           /\ last' = Called("iter_mut_write", k, v)
           /\ pushed' = <<>>
           /\ push_only' = FALSE
           /\ UNCHANGED <<N, len, mode, it, panic_msg, ub, next_id, drops, given,
                          yielded, snap, refs>>

\* the end of the borrow: the iterator and the references it yielded are gone
\* (neither Iter nor IterMut has a destructor)
BorrowEnd ==
    /\ mode \in {"iter", "iter_mut"} /\ ~ub
    /\ mode' = "vec"
    /\ it' = NoIter
    /\ refs' = <<>>
    /\ ret' = RetUnit
    /\ last' = Called("borrow_end", 0, 0)
    /\ UNCHANGED <<N, data, len, panic_msg, ub, next_id, drops, given, pushed, push_only,
                   yielded, snap>>

----------------------------------------------------------------------------
Mutate ==
    \/ \E v \in Vals : Push(v)
    \/ \E new_len \in 0..MaxElems, v \in Vals : Resize(new_len, v)
    \/ \E index \in 0..MaxElems : Remove(index)
    \/ \E index \in 0..MaxElems : SwapRemove(index)

\* the container's operations and the owning iterator's life
Next ==
    \/ Mutate
    \/ IntoIter
    \/ IntoIterNext
    \/ IntoIterDrop
    \/ VecDrop

Spec == Init /\ [][Next]_vars

\* the container's operations and element access; an index runs over the valid
\* ones, len and len + 1
NextAccess ==
    \/ Mutate
    \/ \E index \in 0..(len + 1) : Get(index)
    \/ \E index \in 0..(len + 1) : GetMut(index)
    \/ \E index \in 0..(len + 1) : IndexRead(index)
    \/ \E index \in 0..(len + 1), v \in Vals : IndexWrite(index, v)

SpecAccess == Init /\ [][NextAccess]_vars

\* the container's operations and the borrowing iterators
NextIter ==
    \/ Mutate
    \/ IterNew
    \/ IterNext
    \/ IterMutNew
    \/ IterMutNext
    \/ \E k \in 1..MaxElems, v \in Vals : IterMutWrite(k, v)
    \/ BorrowEnd

SpecIter == Init /\ [][NextIter]_vars

\* the container's operations and the three iterators
NextTraverse ==
    \/ NextIter
    \/ IntoIter
    \/ IntoIterNext
    \/ IntoIterDrop

SpecTraverse == Init /\ [][NextTraverse]_vars

\* the container's operations, a resize that a panicking clone or destructor
\* aborts, and the container's drop
NextUnwind ==
    \/ Mutate
    \/ \E new_len \in 0..MaxElems, v \in Vals, done \in 0..(MaxElems - 1) :
          ResizeAbort(new_len, v, done)
    \/ VecDrop

SpecUnwind == Init /\ [][NextUnwind]_vars

----------------------------------------------------------------------------
\* Properties

\* spec, Data Model: logical index i lives in chunk i / N at offset i % N
SlotOf(i) == data[(i \div N) + 1][i % N]

\* the same slot after a step
NewSlotOf(i) == data'[(i \div N) + 1][i % N]

Ceil(a, b) == (a + b - 1) \div b

\* e is a live element the container is responsible for: constructed, never
\* destroyed, never handed to the caller
Owned(e) == e.id # 0 /\ drops[e.id] = 0 /\ given[e.id] = 0

\* the container is between two operations
Idle == mode \in {"vec", "panicked"}

\* C1: in every state between operations every logical index < len lies in an
\* allocated chunk and its slot holds a live element held by no other index
\* < len; no slot at an index >= len of an allocated chunk is the only holder of
\* a live element (it is uninitialized, or holds the stale bits of an element
\* that was moved down, handed out or destroyed).
C1_SlotsLiveBelowLen ==
    Idle =>
        /\ ~ub
        /\ len <= Len(data) * N
        /\ \A i \in 0..(Len(data) * N - 1) :
              IF i < len
              THEN /\ Owned(SlotOf(i))
                   /\ \A j \in 0..(len - 1) : j # i => SlotOf(j).id # SlotOf(i).id
              ELSE \/ ~Owned(SlotOf(i))
                   \/ \E j \in 0..(len - 1) : SlotOf(j).id = SlotOf(i).id

\* a swap_remove left stale bits in a slot past len while elements remain
C1_Witness ==
    /\ mode = "vec"
    /\ last.op = "swap_remove"
    /\ len >= 2
    /\ len < Len(data) * N
    /\ SlotOf(len).id # 0

\* C2: while push is the only operation done, len is the number of pushes and
\* get(i) is the i-th pushed value for every i < len, None for i = len.
C2_PushThenGet ==
    (push_only /\ mode = "vec") =>
        /\ len = Len(pushed)
        /\ \A i \in 0..(len - 1) : get(data, len, i) = RetSome(pushed[i + 1])
        /\ get(data, len, len) = RetNone
        /\ (last.op = "get" /\ last.arg < len) => ret = RetSome(pushed[last.arg + 1])

\* get returned a pushed value stored in the second chunk
C2_Witness ==
    /\ push_only
    /\ last.op = "get"
    /\ N >= 2
    /\ last.arg >= N
    /\ ret.tag = "some"
    /\ len = MaxElems

\* C3: a remove(i) step with i < len returns the element that was at i, lowers
\* len by one and moves every element that was at j > i to j - 1, leaving those
\* at j < i in place.
C3_RemoveShifts ==
    [][(last'.op = "remove" /\ mode' = "vec") =>
          LET i == last'.arg
          IN  /\ i < len
              /\ ret' = RetSome(SlotOf(i))
              /\ len' = len - 1
              /\ \A j \in 0..(len - 2) :
                    NewSlotOf(j) = IF j < i THEN SlotOf(j) ELSE SlotOf(j + 1)]_vars

\* a remove whose shift crossed at least two chunk boundaries
C3_Witness ==
    /\ mode = "vec"
    /\ last.op = "remove"
    /\ ((last.old_len - 1) \div N) - (last.arg \div N) >= 2

\* C4: a swap_remove(i) step with i < len returns the element that was at i,
\* lowers len by one, puts the former last element at i unless i was the last
\* index, and leaves every other element at its index.
C4_SwapRemoveMovesLast ==
    [][(last'.op = "swap_remove" /\ mode' = "vec") =>
          LET i == last'.arg
          IN  /\ i < len
              /\ ret' = RetSome(SlotOf(i))
              /\ len' = len - 1
              /\ i # len - 1 => NewSlotOf(i) = SlotOf(len - 1)
              /\ \A j \in 0..(len - 2) : j # i => NewSlotOf(j) = SlotOf(j)]_vars

\* a swap_remove that moved the last element into another chunk
C4_Witness ==
    /\ mode = "vec"
    /\ last.op = "swap_remove"
    /\ last.arg < last.old_len - 1
    /\ last.arg \div N # (last.old_len - 1) \div N
    /\ len >= 3

\* C5 as stated: between operations the chunk count is ceil(len / N).
C5_ChunkCountMinimal == mode = "vec" => Len(data) = Ceil(len, N)

\* C5, amended: between operations the chunk count is at least ceil(len / N);
\* it equals ceil(len / N) after every remove and every shrinking resize, and
\* every push and every other resize keeps it equal if it was.  Only
\* swap_remove leaves chunks beyond ceil(len / N) allocated.
C5_ChunkCountAmended ==
    /\ [](Idle => Len(data) >= Ceil(len, N))
    /\ [][(/\ mode' = "vec"
           /\ last'.op \in {"push", "resize", "remove"}
           /\ \/ Len(data) = Ceil(len, N)
              \/ last'.op = "remove"
              \/ last'.op = "resize" /\ last'.arg < len)
          => Len(data') = Ceil(len', N)]_vars

\* a remove emptied the last chunk and released it
C5_Witness ==
    /\ mode = "vec"
    /\ last.op = "remove"
    /\ len >= 1
    /\ len % N = 0
    /\ Len(data) = len \div N

\* C6: the drop of an owning iterator that yielded j elements destroys the
\* elements that were at indices j.. of the container, once each and no other,
\* with its cursor at index j; the yielded ones stay undestroyed with their
\* receiver; len is 0 afterwards and the container's destructor, run next,
\* destroys nothing and releases the chunks.
C6_IterDropDestroysRest ==
    [][/\ (last'.op = "drop_iter" /\ mode = "into_iter") =>
            LET j == Len(yielded)
                rest == {snap[k].id : k \in (j + 1)..Len(snap)}
                done == {snap[k].id : k \in 1..j}
            IN  /\ mode' = "iter_dropped"
                /\ it.chunk_idx * N + it.offset = j
                /\ Cardinality(rest) = Len(snap) - j
                /\ \A id \in ElemIds : drops'[id] = IF id \in rest THEN 1 ELSE drops[id]
                /\ \A id \in done : drops'[id] = 0 /\ given'[id] = 1
                /\ \A id \in rest : given'[id] = 0
                /\ len' = 0
       /\ (last'.op = "drop_vec" /\ mode = "iter_dropped") =>
            /\ drops' = drops
            /\ data' = <<>>]_vars

\* an iterator over more than one chunk was dropped half-way and the container after it
C6_Witness ==
    /\ mode = "dropped"
    /\ last.op = "drop_vec"
    /\ Len(snap) > N
    /\ Len(yielded) >= 1
    /\ Len(yielded) < Len(snap)
    /\ \E id \in ElemIds : drops[id] = 1

\* C7: after pushes alone, the owning iterator yields the pushed values in push
\* order, then None, without failing, and len is 0 once the iterator is dropped.
C7_PushIntoIterRoundTrip ==
    push_only =>
        /\ mode = "into_iter" =>
              /\ Len(yielded) + it.remaining = Len(pushed)
              /\ yielded = SubSeq(pushed, 1, Len(yielded))
              /\ last.op = "next" =>
                    ret = IF last.arg = 0 THEN RetNone ELSE RetSome(pushed[Len(yielded)])
              /\ (last.op = "next" /\ last.arg = 0) => yielded = pushed
        /\ last.op \in {"next", "drop_iter"} => mode # "panicked"
        /\ mode = "iter_dropped" => len = 0

\* after 2 * N pushes the iterator was consumed and answered None
C7_Witness ==
    /\ push_only
    /\ mode = "into_iter"
    /\ last.op = "next"
    /\ ret = RetNone
    /\ N >= 2
    /\ Len(pushed) = 2 * N
    /\ yielded = pushed

\* C8: a resize(m, _) step with m < len destroys the elements at m..len-1 once
\* each and no other, leaves those at 0..m-1 in place, sets len to m and leaves
\* N * ceil(m / N) slots allocated.
C8_ResizeShrink ==
    [][(last'.op = "resize" /\ last'.arg < len) =>
          LET m == last'.arg
              gone == {SlotOf(i).id : i \in m..(len - 1)}
          IN  /\ Cardinality(gone) = len - m
              /\ \A id \in ElemIds : drops'[id] = IF id \in gone THEN 1 ELSE drops[id]
              /\ given' = given
              /\ \A j \in 0..(m - 1) : NewSlotOf(j) = SlotOf(j)
              /\ len' = m
              /\ Len(data') * N = N * Ceil(m, N)]_vars

\* a shrinking resize from a state with surplus chunks that released chunks
\* and kept elements
C8_Witness ==
    /\ last.op = "resize"
    /\ last.arg < last.old_len
    /\ last.arg >= 1
    /\ Ceil(last.arg, N) < Ceil(last.old_len, N)
    /\ \E id \in ElemIds : given[id] = 1

\* C9: a resize(m, v) step with m > len sets len to m, fills the indices
\* len..m-1 with new live elements of value v, all distinct, leaves the
\* elements below the old len in place and has a chunk for every index < m.
C9_ResizeGrow ==
    [][(last'.op = "resize" /\ last'.arg > len) =>
          LET m == last'.arg
          IN  /\ len' = m
              /\ Len(data') >= Ceil(m, N)
              /\ \A j \in len..(m - 1) :
                    /\ NewSlotOf(j).val = last'.val
                    /\ NewSlotOf(j).id > next_id
                    /\ NewSlotOf(j).id <= next_id'
                    /\ \A k \in len..(m - 1) : k # j => NewSlotOf(k).id # NewSlotOf(j).id
              /\ \A j \in 0..(len - 1) : NewSlotOf(j) = SlotOf(j)
              /\ drops' = drops
              /\ given' = given]_vars

\* a growing resize that started in a partly filled chunk and went into the next one
C9_Witness ==
    /\ last.op = "resize"
    /\ last.arg > last.old_len
    /\ last.old_len % N # 0
    /\ Ceil(last.arg, N) > Ceil(last.old_len, N)
    /\ len = last.arg

\* the words of each operation's message
PanicWords(op) ==
    CASE op = "remove" -> <<"removal index (is ", ") should be < len (is ">>
      [] op = "swap_remove" -> <<"swap_remove index (is ", ") should be < len (is ">>
      [] OTHER -> <<"Index out of bounds: index ", " >= length ">>

\* C10: indexing, remove and swap_remove end in a panic exactly when
\* index >= len; the message names the operation, then the index, then the len.
C10_OutOfBoundsPanics ==
    last.op \in {"index", "index_mut", "remove", "swap_remove"} =>
        IF last.arg >= last.old_len
        THEN /\ mode = "panicked"
             /\ Len(panic_msg) >= 4
             /\ panic_msg[1] = PanicWords(last.op)[1]
             /\ panic_msg[2] = last.arg
             /\ panic_msg[3] = PanicWords(last.op)[2]
             /\ panic_msg[4] = last.old_len
             /\ len = last.old_len
        ELSE /\ mode = "vec"
             /\ panic_msg = NoPanic

\* 'swap_remove index (is 0) should be < len (is 0)'
C10_Witness ==
    /\ mode = "panicked"
    /\ last.op = "swap_remove"
    /\ last.arg = 0
    /\ last.old_len = 0
    /\ panic_msg = <<"swap_remove index (is ", 0, ") should be < len (is ", 0, ")">>

\* C11: get and get_mut return None exactly when index >= len and otherwise
\* the element at that logical index; they never end in a fatal error, and they
\* leave the chunks, len and every element as they were (so in particular when
\* index >= len).
C11_GetTotal ==
    [][last'.op \in {"get", "get_mut"} =>
          /\ mode' = "vec"
          /\ panic_msg' = NoPanic
          /\ ~ub'
          /\ ret' = IF last'.arg >= len THEN RetNone ELSE RetSome(SlotOf(last'.arg))
          /\ UNCHANGED <<data, len, next_id, drops, given>>]_vars

\* get_mut(len) on a container of several chunks returned None
C11_Witness ==
    /\ mode = "vec"
    /\ last.op = "get_mut"
    /\ last.arg = len
    /\ Len(data) >= 2
    /\ ret = RetNone

\* C12: between operations, after any sequence of push, resize, remove and
\* swap_remove, len is at most chunk count * N: the allocated slots hold every
\* logical index.
C12_LenWithinCapacity == Idle => len <= allocated_capacity

\* a remove left every allocated slot of two or more slots in use
C12_Witness ==
    /\ mode = "vec"
    /\ last.op = "remove"
    /\ len >= 2
    /\ len = allocated_capacity

\* C13: after k pushes on an empty container allocated_capacity is
\* N * ceil(k / N); a push allocates one chunk exactly when it is push number
\* 1, N + 1, 2N + 1, ... (len % N = 0 before it) and no chunk otherwise.
C13_PushAllocation ==
    /\ []((push_only /\ mode = "vec") =>
             /\ len = Len(pushed)
             /\ allocated_capacity = N * Ceil(len, N))
    /\ [][(push_only /\ last'.op = "push" /\ mode' = "vec") =>
             Len(data') = Len(data) + (IF len % N = 0 THEN 1 ELSE 0)]_vars

\* push number N + 1 with N = 2 allocated the second chunk
C13_Witness ==
    /\ push_only
    /\ mode = "vec"
    /\ last.op = "push"
    /\ N = 2
    /\ len = N + 1
    /\ last.old_chunks = 1
    /\ Len(data) = 2

\* C14: after every remove that returns, whatever the chunks allocated before
\* it, allocated_capacity is N * ceil(len / N) for the new len, and 0 when the
\* new len is 0.
C14_RemoveCapacity ==
    [][(last'.op = "remove" /\ mode' = "vec") =>
          /\ allocated_capacity' = N * Ceil(len', N)
          /\ len' = 0 => allocated_capacity' = 0]_vars

\* a remove from a state with chunks beyond ceil(len / N) released them and
\* kept elements
C14_Witness ==
    /\ mode = "vec"
    /\ last.op = "remove"
    /\ last.old_chunks > Ceil(last.old_len, N)
    /\ len >= 1
    /\ Len(data) = Ceil(len, N)

\* C15: a swap_remove that returns leaves the number of allocated chunks as
\* it was, also when it removes the only element of the last chunk.
C15_SwapRemoveKeepsChunks ==
    [][(last'.op = "swap_remove" /\ mode' = "vec") => Len(data') = Len(data)]_vars

\* swap_remove took the only element of the last of several chunks; the chunk
\* is still allocated
C15_Witness ==
    /\ mode = "vec"
    /\ last.op = "swap_remove"
    /\ last.arg = last.old_len - 1
    /\ last.arg % N = 0
    /\ len >= 1
    /\ Len(data) = last.old_chunks
    /\ Len(data) > Ceil(len, N)

\* C16 as stated: a resize called with chunks beyond ceil(len / N) allocated
\* (only swap_remove leaves such chunks) ends with ceil(new_len / N) chunks.
C16_ResizeReclaims ==
    (/\ mode = "vec"
     /\ last.op = "resize"
     /\ last.old_chunks > Ceil(last.old_len, N))
    => Len(data) = Ceil(len, N)

\* C16, amended: a resize(m, _) with m < len ends with ceil(m / N) chunks; a
\* resize with m >= len releases no chunk: it ends with the larger of the
\* chunk count before it and ceil(m / N).
C16_ResizeReclaimsOnShrink ==
    [][last'.op = "resize" =>
          Len(data') = IF last'.arg < len THEN Ceil(last'.arg, N)
                       ELSE IF Len(data) > Ceil(last'.arg, N) THEN Len(data)
                       ELSE Ceil(last'.arg, N)]_vars

\* a growing resize after swap_remove calls ended with more chunks than
\* ceil(len / N)
C16_Witness ==
    /\ mode = "vec"
    /\ last.op = "resize"
    /\ last.arg > last.old_len
    /\ last.old_chunks > Ceil(last.old_len, N)
    /\ Len(data) = last.old_chunks
    /\ Len(data) > Ceil(len, N)

\* C17: a remove or swap_remove that returns runs no destructor and hands
\* exactly the removed element to the caller: that element no longer lies at
\* an index < len, and every other element that did still lies at exactly one
\* index < len and is owned by the container alone.
C17_RemovalMovesOwnership ==
    [][(last'.op \in {"remove", "swap_remove"} /\ mode' = "vec") =>
          LET r == SlotOf(last'.arg)
              before == {SlotOf(j).id : j \in 0..(len - 1)}
              after == {NewSlotOf(j).id : j \in 0..(len' - 1)}
          IN  /\ Owned(r)
              /\ ret' = RetSome(r)
              /\ drops' = drops
              /\ given' = [given EXCEPT ![r.id] = 1]
              /\ after = before \ {r.id}
              /\ Cardinality(after) = len'
              /\ \A j \in 0..(len' - 1) :
                    drops'[NewSlotOf(j).id] = 0 /\ given'[NewSlotOf(j).id] = 0]_vars

\* a remove at index 0 shifted elements across a chunk boundary; no destructor
\* has run and the returned element is the only one handed out
C17_Witness ==
    /\ mode = "vec"
    /\ last.op = "remove"
    /\ last.arg = 0
    /\ N = 2
    /\ last.old_len >= 3
    /\ ret.tag = "some"
    /\ \A id \in ElemIds : drops[id] = 0 /\ given[id] = (IF id = ret.v.id THEN 1 ELSE 0)

\* C18: no element is ever both handed to the caller and destroyed, or either
\* twice; once the container has been dropped (directly, or as part of an
\* owning iterator that was dropped) every element ever constructed has been
\* handed out once or destroyed once, and no chunk is left allocated.
C18_ExactlyOnce ==
    /\ \A id \in ElemIds :
          /\ drops[id] + given[id] <= 1
          /\ id > next_id => drops[id] + given[id] = 0
    /\ mode = "dropped" =>
          /\ ~ub
          /\ data = <<>>
          /\ \A id \in 1..next_id : drops[id] + given[id] = 1

\* the container of an owning iterator was dropped after removals, yields and
\* in-place destructions
C18_Witness ==
    /\ mode = "dropped"
    /\ next_id >= 3
    /\ Len(yielded) >= 1
    /\ \E id \in ElemIds : given[id] = 1 /\ \A k \in 1..Len(yielded) : yielded[k].id # id
    /\ \E id \in ElemIds : drops[id] = 1

\* the logical index stored at slot address ptr
IndexOf(ptr) == ptr[1] * N + ptr[2]

\* C19: an Iter created in any state between operations yields, call after
\* call, the elements at the logical indices 0, 1, ..., len - 1 and then None;
\* no step of it changes the chunks, len or any element; size_hint is
\* (r, Some(r)) with r the number of elements not yet yielded.
C19_IterYieldsInOrder ==
    /\ [](mode = "iter" =>
             /\ Len(refs) <= len
             /\ \A k \in 1..Len(refs) : IndexOf(refs[k]) = k - 1
             /\ Iter_size_hint(it) = <<len - Len(refs), RetSome(len - Len(refs))>>)
    /\ [][last'.op = "iter" => (refs' = <<>> /\ UNCHANGED <<data, len, drops, given>>)]_vars
    /\ [][last'.op = "iter_next" =>
             /\ mode' = "iter"
             /\ ~ub'
             /\ IF Len(refs) < len
                THEN /\ ret' = RetSome(SlotOf(Len(refs)))
                     /\ Len(refs') = Len(refs) + 1
                ELSE /\ ret' = RetNone
                     /\ refs' = refs
             /\ UNCHANGED <<data, len, drops, given, next_id>>]_vars

\* an Iter over a container with a surplus chunk has yielded the elements of
\* more than one chunk and then None
C19_Witness ==
    /\ mode = "iter"
    /\ last.op = "iter_next"
    /\ ret = RetNone
    /\ Len(refs) = len
    /\ len > N
    /\ Len(data) > Ceil(len, N)

\* C20: an IterMut yields the slots of the logical indices 0, 1, ..., len - 1
\* in this order, each once, none at an index >= len, and then None; a store
\* through a reference it yielded changes the value of the element at that
\* index and nothing else.
C20_IterMutVisitsOnce ==
    /\ [](mode = "iter_mut" =>
             /\ Len(refs) <= len
             /\ \A k \in 1..Len(refs) : IndexOf(refs[k]) = k - 1 /\ refs[k][2] < N
             /\ \A j, k \in 1..Len(refs) : j # k => refs[j] # refs[k])
    /\ [][last'.op = "iter_mut_next" =>
             /\ mode' = "iter_mut"
             /\ ~ub'
             /\ IF Len(refs) < len
                THEN /\ ret' = RetSome(SlotOf(Len(refs)))
                     /\ Len(refs') = Len(refs) + 1
                ELSE /\ ret' = RetNone
                     /\ refs' = refs
             /\ UNCHANGED <<data, len, drops, given, next_id>>]_vars
    /\ [][last'.op = "iter_mut_write" =>
             LET i == IndexOf(refs[last'.arg])
             IN  /\ i < len
                 /\ NewSlotOf(i) = [SlotOf(i) EXCEPT !.val = last'.val]
                 /\ \A j \in 0..(Len(data) * N - 1) : j # i => NewSlotOf(j) = SlotOf(j)
                 /\ Len(data') = Len(data)
                 /\ UNCHANGED <<len, drops, given, next_id, refs, it>>]_vars

\* after IterMut yielded the slots of two chunks, a store through the first
\* reference changed the value at index 0
C20_Witness ==
    /\ mode = "iter_mut"
    /\ last.op = "iter_mut_write"
    /\ last.arg = 1
    /\ Len(refs) = len
    /\ len > N
    /\ SlotOf(0).val = last.val
    /\ \E j \in 1..(len - 1) : SlotOf(j).val # last.val

\* C21: a resize(m, _) step with m = len changes neither len nor the chunk
\* list nor any slot, constructs no element and destroys none.
C21_ResizeSameLenNoOp ==
    [][(last'.op = "resize" /\ last'.arg = len) =>
          /\ mode' = "vec"
          /\ UNCHANGED <<data, len, next_id, drops, given>>]_vars

\* resize(len, _) on a container with elements and a chunk beyond ceil(len / N)
C21_Witness ==
    /\ mode = "vec"
    /\ last.op = "resize"
    /\ last.arg = last.old_len
    /\ len = last.arg
    /\ len >= 1
    /\ Len(data) = last.old_chunks
    /\ Len(data) > Ceil(len, N)

\* The reference: a plain growable sequence and its four operations, with
\* 0-based indices.
Vec_push(s, e) == Append(s, e)

Vec_resize(s, n, v, first_id) ==
    IF n <= Len(s) THEN SubSeq(s, 1, n)
    ELSE s \o [k \in 1..(n - Len(s)) |-> Elem(first_id + k - 1, v)]

Vec_remove(s, i) == [k \in 1..(Len(s) - 1) |-> IF k <= i THEN s[k] ELSE s[k + 1]]

Vec_swap_remove(s, i) == SubSeq([s EXCEPT ![i + 1] = s[Len(s)]], 1, Len(s) - 1)

\* C22: the container refines a plain growable sequence under the mapping
\* Contents (logical index i read at chunk i / N, offset i % N): it starts
\* empty, every push, resize, remove and swap_remove that returns takes
\* Contents to the result of the same operation on the reference, len stays
\* the reference's length, and remove / swap_remove return what the reference
\* returns.
C22_RefinesFlatSequence ==
    /\ [](last.op = "new" => (len = 0 /\ Contents(data, len) = <<>>))
    /\ [][(mode' = "vec" /\ last'.op \in {"push", "resize", "remove", "swap_remove"}) =>
             LET s == Contents(data, len)
                 i == last'.arg
                 t == CASE last'.op = "push" -> Vec_push(s, Elem(next_id + 1, last'.val))
                        [] last'.op = "resize" -> Vec_resize(s, i, last'.val, next_id + 1)
                        [] last'.op = "remove" -> Vec_remove(s, i)
                        [] last'.op = "swap_remove" -> Vec_swap_remove(s, i)
             IN  /\ len' = Len(t)
                 /\ Contents(data', len') = t
                 /\ last'.op \in {"remove", "swap_remove"} => ret' = RetSome(s[i + 1])]_vars

\* a remove in the first of two chunks of size 2 left three elements, the
\* last chunk holding one
C22_Witness ==
    /\ mode = "vec"
    /\ last.op = "remove"
    /\ N = 2
    /\ last.arg = 1
    /\ last.old_len = 4
    /\ len = 3
    /\ Contents(data, len)[2].id # 0
    /\ ret.tag = "some"
    /\ given[ret.v.id] = 1

\* C23: between operations, whenever the chunk of index len is not allocated
\* (len / N >= chunk count), len % N = 0; so the assert_eq!(offset, 0) of push
\* never fails.
C23_PushAssertHolds ==
    /\ (mode = "vec" /\ len \div N >= Len(data)) => len % N = 0
    /\ ~(mode = "panicked" /\ last.op = "push")

\* a push found the chunk of its slot not allocated, after removals, and
\* allocated it
C23_Witness ==
    /\ mode = "vec"
    /\ last.op = "push"
    /\ last.old_len >= 1
    /\ last.old_len \div N >= last.old_chunks
    /\ Len(data) = last.old_chunks + 1
    /\ \E id \in ElemIds : given[id] = 1

\* C24: a push step appends exactly one chunk when len = chunk count * N
\* before it and none otherwise (a chunk left by swap_remove is used again);
\* it writes the slot of logical index len and changes no other slot that
\* was allocated; the other slots of an appended chunk are uninitialized.
C24_PushFrame ==
    [][(last'.op = "push" /\ mode' = "vec") =>
          /\ Len(data') = Len(data) + (IF len = Len(data) * N THEN 1 ELSE 0)
          /\ len' = len + 1
          /\ NewSlotOf(len) = Elem(next_id + 1, last'.val)
          /\ \A j \in 0..(Len(data') * N - 1) :
                j # len => NewSlotOf(j) = (IF j < Len(data) * N THEN SlotOf(j) ELSE Uninit)]_vars

\* a push wrote the first slot of a chunk that a swap_remove had left
\* allocated
C24_Witness ==
    /\ mode = "vec"
    /\ last.op = "push"
    /\ last.old_len % N = 0
    /\ last.old_len >= 1
    /\ last.old_chunks > Ceil(last.old_len, N)
    /\ Len(data) = last.old_chunks

\* C25: when a remove or resize step releases chunks, the chunks kept are
\* whole and as they were before the release, and every slot of a released
\* chunk lies at a logical index >= the new len and holds no element
\* that is still live and held nowhere else: it is uninitialized, or its
\* element was handed out, destroyed, or moved to an index < the new len.
C25_ReleasedChunksHoldNothing ==
    [][(last'.op \in {"remove", "resize"} /\ mode' = "vec" /\ Len(data') < Len(data)) =>
          LET before == IF last'.op = "remove"
                        THEN remove_shift(data, len, last'.arg)
                        ELSE data
          IN  /\ data' = SubSeq(before, 1, Len(data'))
              /\ \A c \in Len(data')..(Len(data) - 1) : \A o \in 0..(N - 1) :
                    LET e == before[c + 1][o]
                    IN  /\ c * N + o >= len'
                        /\ \/ e.id = 0
                           \/ drops'[e.id] = 1
                           \/ given'[e.id] = 1
                           \/ \E j \in 0..(len' - 1) : NewSlotOf(j).id = e.id]_vars

\* a remove released the last chunk, whose only element had moved down to
\* the chunk before it
C25_Witness ==
    /\ mode = "vec"
    /\ last.op = "remove"
    /\ N = 2
    /\ last.old_len = 3
    /\ last.arg = 0
    /\ last.old_chunks = 2
    /\ Len(data) = 1
    /\ len = 2

\* an iterator is live
Traversing == mode \in {"into_iter", "iter", "iter_mut"}

\* the container's len when the live iterator was created
CreatedLen == IF mode = "into_iter" THEN Len(snap) ELSE len

\* the number of elements the live iterator has yielded
YieldedCount == IF mode = "into_iter" THEN Len(yielded) ELSE Len(refs)

NextOps == {"next", "iter_next", "iter_mut_next"}

\* C26: while any of the three iterators is live, offset < N and
\* chunk_idx * N + offset + remaining is the len at its creation; while
\* remaining > 0 the cursor is a slot of an allocated chunk that holds a live
\* element, so the cursor past the last chunk occurs only with remaining = 0;
\* no next and no drop of the owning iterator fails a bounds check or touches
\* an uninitialized slot.
C26_CursorInvariant ==
    /\ Traversing =>
          /\ it.offset < N
          /\ it.chunk_idx * N + it.offset + it.remaining = CreatedLen
          /\ it.remaining > 0 =>
                /\ cursor_in_bounds(data, it)
                /\ Owned(slot_at(data, it.chunk_idx, it.offset))
          /\ it.chunk_idx >= Len(data) => it.remaining = 0
          /\ ~ub
    /\ last.op \in (NextOps \cup {"drop_iter"}) => (mode # "panicked" /\ ~ub)

\* the owning iterator of a container whose len is a multiple of N yielded
\* everything: the cursor is one past the last chunk
C26_Witness ==
    /\ mode = "into_iter"
    /\ Len(snap) = 2 * N
    /\ it.remaining = 0
    /\ it.offset = 0
    /\ it.chunk_idx = Len(data)
    /\ Len(data) = 2

\* C27: a next call of any of the three iterators returns None exactly when
\* the iterator has yielded as many elements as the len at its creation, and
\* then changes neither the cursor nor the container nor that count; so after
\* a None every later next returns None.
C27_FiniteNotRestartable ==
    /\ [](Traversing => YieldedCount <= CreatedLen)
    /\ [][last'.op \in NextOps =>
             /\ mode' = mode
             /\ (ret' = RetNone) <=> (YieldedCount = CreatedLen)
             /\ ret' = RetNone => UNCHANGED <<it, data, len, yielded, refs, drops, given>>
             /\ ret' # RetNone => YieldedCount' = YieldedCount + 1]_vars
    /\ [][(last.op \in NextOps /\ ret = RetNone /\ last'.op \in NextOps) =>
             ret' = RetNone]_vars

\* an exhausted borrowing iterator over several chunks was asked again and
\* returned None again
C27_Witness ==
    /\ mode = "iter"
    /\ last.op = "iter_next"
    /\ last.arg = 0
    /\ ret = RetNone
    /\ Len(refs) = len
    /\ len > N
    /\ it.remaining = 0

\* C28 as stated: when a panic has left resize partway, no index < len holds
\* an element that was destroyed, and the drop of the container afterwards
\* runs no element's destructor a second time.
C28_NoPartialFailure ==
    /\ mode = "unwinding" => \A i \in 0..(len - 1) : drops[SlotOf(i).id] = 0
    /\ mode = "dropped" => (~ub /\ \A id \in ElemIds : drops[id] <= 1)

====
